---- MODULE Spec2Model ----
(***************************************************************************)
(* FalVideoGenerationTool (backend/director/tools/fal_video.py): the two   *)
(* coroutines text_to_video_async and image_to_image_async.  A job is one  *)
(* invocation of one of them.  A step of a job is the code it runs between *)
(* two awaits: the awaited request together with the synchronous code that *)
(* follows its answer.  The queue service, the asset host and the file     *)
(* system are the environment: their answers are chosen with \E.           *)
(***************************************************************************)
EXTENDS Integers, Sequences, FiniteSets, TLC

VARIABLES
    args,              \* per job: the call site and the call's arguments
    pc,                \* per job: the statement the coroutine resumes at
    session,           \* per job: the aiohttp.ClientSession of the with block
    fal_response_json, \* per job: the JSON of the submission response
    status_url,        \* per job: local status_url
    response_url,      \* per job: local response_url
    retry_count,       \* per job: local retry_count (image-to-image only)
    status_json,       \* per job: the status of the last status response
    res,               \* per job: the JSON of the result
    image_url_result,  \* per job: the asset URL taken from the result
    pending,           \* per job: the exception raised inside the try block
    outcome,           \* per job: what the caller got (return value or exception)
    fs,                \* the file system: path -> file
    io                 \* per job: history of the requests, sleeps and file opens

vars == << args, pc, session, fal_response_json, status_url, response_url,
           retry_count, status_json, res, image_url_result, pending, outcome,
           fs, io >>

----------------------------------------------------------------------------
(* Bounds of the model. *)

\* The history io counts up to HistoryCap: a count of HistoryCap stands for
\* "HistoryCap or more".  It is larger than max_retries, so every count of an
\* image-to-image job is exact and the uncapped loop of text_to_video_async
\* is seen to run beyond max_retries.
HistoryCap == 32

\* The pending answers a text-to-video job gets when two jobs run together.
ConcPending == 2

----------------------------------------------------------------------------
(* Program constants. *)

max_retries == 30

polling_interval == 10

----------------------------------------------------------------------------
(* Values. *)

Jobs == {"j1", "j2"}

None == [class |-> "None", msg |-> "None"]

Unset == "<unset>"

\* Arguments a caller passes: the empty string is the falsy value of Python.
ImageUrlArgs == {"", "https://in/src.png"}
PromptArgs == {"", "a prompt"}
SavePath == [j \in Jobs |-> IF j = "j1" THEN "/out/a" ELSE "/out/b"]
Paths == {SavePath[j] : j \in Jobs}

\* The locators the service hands out for a job.
StatusLocator(j) == "https://queue.fal.run/requests/" \o j \o "/status"
ResponseLocator(j) == "https://queue.fal.run/requests/" \o j

\* Asset URLs and the bytes each one serves.
AssetUrls == {"https://x/1", "https://x/2"}
Body(url) == IF url = "https://x/1" THEN << 0, 1 >> ELSE << 2 >>

\* A file: absent, or present with its bytes.
NoFile == [exists |-> FALSE, data |-> << >>]
File(bytes) == [exists |-> TRUE, data |-> bytes]
OldBytes == << 9, 9, 9 >>

\* The status field of a status response; NoStatusField is a response
\* without the key.
NoStatusField == "<no status key>"
StatusValues == {"IN_QUEUE", "IN_PROGRESS", "COMPLETED", "FAILED", NoStatusField}

\* The JSON of a submission response: which locators it carries, and whether
\* the HTTP status was an error status (>= 400).
SubmitResponses ==
    [received : {TRUE}, http_error : BOOLEAN,
     has_status_url : BOOLEAN, has_response_url : BOOLEAN]
NoResponse ==
    [received |-> FALSE, http_error |-> FALSE,
     has_status_url |-> FALSE, has_response_url |-> FALSE]

\* The JSON of the result: text-to-video reads res["video"]["url"],
\* image-to-image reads res["images"][0]["url"].
ImageLists ==
    { << >> } \cup { << [url |-> u] >> : u \in AssetUrls }
              \cup { << [url |-> u], [url |-> v] >> : u, v \in AssetUrls }
VideoResults ==
    { [received |-> TRUE, has_video |-> FALSE, url |-> Unset,
       has_images |-> FALSE, images |-> << >>] }
        \cup { [received |-> TRUE, has_video |-> TRUE, url |-> u,
                has_images |-> FALSE, images |-> << >>] : u \in AssetUrls }
ImageResults ==
    { [received |-> TRUE, has_video |-> FALSE, url |-> Unset,
       has_images |-> FALSE, images |-> << >>] }
        \cup { [received |-> TRUE, has_video |-> FALSE, url |-> Unset,
                has_images |-> TRUE, images |-> l] : l \in ImageLists }
NoResult ==
    [received |-> FALSE, has_video |-> FALSE, url |-> Unset,
     has_images |-> FALSE, images |-> << >>]

----------------------------------------------------------------------------
(* Exceptions: the class and str(e). *)

Exc(class, msg) == [class |-> class, msg |-> msg]

ErrRequiredArgs == Exc("ValueError", "image_url and save_at are required parameters")
ErrRequiredPrompt == Exc("ValueError", "prompt is a required parameter")
ErrMissingLocators ==
    Exc("ValueError", "Invalid response from FAL queue: Missing 'status_url' or 'response_url'")
ErrMissingStatus == Exc("ValueError", "Invalid response from FAL queue: Missing 'status'")
ErrUnknownStatus == Exc("ValueError", "Unknown status for FAL request")
ErrTimeout == Exc("TimeoutError", "FAL API request timed out after 5 minutes")
\* line 183; the branch of lines 184-185 is never taken, since an empty list
\* already fails the test of line 182.
ErrNoImages == Exc("Exception", "No images returned in FAL response.")
ErrKeyStatus == Exc("KeyError", "'status'")
ErrKeyVideo == Exc("KeyError", "'video'")
ErrHttpStatus == Exc("ClientResponseError", "raise_for_status")
ErrNetwork == Exc("ClientError", "request failed")
ErrIO == Exc("OSError", "file")

----------------------------------------------------------------------------
(* The arguments of a call.  A parameter the call site does not take is     *)
(* Unset; duration only goes into the payload.                              *)

VideoArgs(j) ==
    [site : {"video"}, image_url : {Unset}, prompt : PromptArgs,
     save_at : {"", SavePath[j]}]
ImageArgs(j) ==
    [site : {"image"}, image_url : ImageUrlArgs, prompt : PromptArgs,
     save_at : {"", SavePath[j]}]
NoCall == [site |-> "none", image_url |-> Unset, prompt |-> Unset, save_at |-> Unset]

NoIO == [opens |-> 0, post |-> 0, status |-> 0, result |-> 0, asset |-> 0,
         pending |-> 0, sleeps |-> 0, slept |-> 0, fopen |-> 0, fwrite |-> 0,
         stray |-> 0]

NoOutcome == [kind |-> "none", value |-> None]
Returned(v) == [kind |-> "return", value |-> v]
Raised(e) == [kind |-> "raise", value |-> e]

----------------------------------------------------------------------------
(* Pure parts of the two coroutines. *)

\* The argument checks without the one of line 141.
ValidationErrorNoPrompt(a) ==
    IF a.site = "image" /\ (a.image_url = "" \/ a.save_at = "") THEN ErrRequiredArgs
    ELSE None

\* image_to_image_async, lines 139-142: the exception of the argument
\* checks, None when they pass.  text_to_video_async checks nothing.
ValidationError(a) ==
    IF a.site = "image" /\ (a.image_url = "" \/ a.save_at = "") THEN ErrRequiredArgs
    ELSE IF a.site = "image" /\ a.prompt = "" THEN ErrRequiredPrompt
    ELSE None

\* The test of lines 77-80 / 157 with "and" for "or": one locator is enough.
HasEitherLocator(r) == r.has_status_url \/ r.has_response_url

\* lines 77-80 and 157: both locators are in the submission response.
HasLocators(r) == r.has_status_url /\ r.has_response_url

\* line 154: only image_to_image_async calls raise_for_status().
RaisesForStatus(site, r) == site = "image" /\ r.http_error

\* lines 98 and 174.
IsPending(s) == s \in {"IN_QUEUE", "IN_PROGRESS"}

\* The cap tested one attempt early.
TimedOutEarly(site, count) == site = "image" /\ count >= max_retries - 1

\* The cap tested with > instead of >=.
TimedOutLate(site, count) == site = "image" /\ count > max_retries

\* lines 168-169: the cap, checked at the top of the loop of
\* image_to_image_async; the loop of text_to_video_async has none.
TimedOut(site, count) == site = "image" /\ count >= max_retries

\* The exception of a status that is neither pending nor COMPLETED.
\* text_to_video_async tests "status" not in status_json (lines 93-96);
\* image_to_image_async indexes status_json["status"] (line 174).
StatusError(site, s) ==
    IF s = NoStatusField
    THEN (IF site = "video" THEN ErrMissingStatus ELSE ErrKeyStatus)
    ELSE ErrUnknownStatus

\* The exception of reading the asset URL out of the result, None when there
\* is one: res["video"]["url"] (line 106), res.get("images") (lines 182-185).
ResultError(site, r) ==
    IF site = "video"
    THEN (IF r.has_video THEN None ELSE ErrKeyVideo)
    ELSE (IF r.has_images /\ r.images /= << >> THEN None ELSE ErrNoImages)

\* The last image taken for the first.
AssetUrlLast(site, r) ==
    IF site = "video" THEN r.url ELSE r.images[Len(r.images)].url

\* lines 106 and 187.
AssetUrl(site, r) ==
    IF site = "video" THEN r.url ELSE r.images[1].url

Results(site) == IF site = "video" THEN VideoResults ELSE ImageResults

Label(site) == IF site = "video" THEN "generating video" ELSE "generating image"

\* The except clause re-raising what it caught.
Reraise(site, e) ==
    [class |-> e.class, msg |-> << "", e.msg >>, cause |-> None, context |-> None]

\* lines 118-119 and 196-197: the except clause.  Both raise inside the
\* handler, so __context__ is the caught exception; only line 197 says
\* "from e", which sets __cause__.
Wrap(site, e) ==
    [class |-> "Exception",
     msg |-> << "Error " \o Label(site) \o ": ", e.msg >>,
     cause |-> IF site = "image" THEN e ELSE None,
     context |-> e]

\* lines 121 and 199: the return value.
Success(a, url) ==
    IF a.site = "video"
    THEN [status |-> "success", video_path |-> a.save_at]
    ELSE [status |-> "success", image_url |-> url, image_path |-> a.save_at]

\* The session closed by hand on the success path only.
ClosedOnSuccessOnly(e) == IF e = None THEN "closed" ELSE "open"

\* The session after the with block of lines 70 / 150 is left, with
\* exception e or with None: __aexit__ closes it either way.
SessionAfterExit(e) == "closed"

\* The break forgotten: the loop goes round again.
MissingBreak == "poll"

\* lines 112 and 192: break leaves the loop, and with it the with block.
AfterStore == "exit_session"

\* One more in a count of the history.
Count(n) == IF n < HistoryCap THEN n + 1 ELSE n

----------------------------------------------------------------------------
(* Steps. *)

Site(j) == args[j].site

\* One more request of the given kind on the job's session.
Request(j, kind) ==
    [io[j] EXCEPT ![kind] = Count(@),
                  !.stray = IF session[j] = "open" THEN @ ELSE Count(@)]

\* A failed request tried again: the job goes back to the submission.
FailResubmit(j, e) ==
    /\ pc' = [pc EXCEPT ![j] = IF e = ErrNetwork THEN "post" ELSE "exit_session"]
    /\ pending' = [pending EXCEPT ![j] = IF e = ErrNetwork THEN @ ELSE e]

\* An exception raised inside the with block: the block is left with it.
Fail(j, e) ==
    /\ pc' = [pc EXCEPT ![j] = "exit_session"]
    /\ pending' = [pending EXCEPT ![j] = e]

\* Lines 61-70 and 138-150: the code up to the entry of the with block.
Call(j) ==
    /\ pc[j] = "call"
    /\ LET e == ValidationError(args[j]) IN
         IF e /= None
         THEN /\ pc' = [pc EXCEPT ![j] = "raised"]
              /\ pending' = [pending EXCEPT ![j] = e]
              /\ outcome' = [outcome EXCEPT ![j] = Raised(Wrap(Site(j), e))]
              /\ UNCHANGED << session, io >>
         ELSE /\ pc' = [pc EXCEPT ![j] = "post"]
              /\ session' = [session EXCEPT ![j] = "open"]
              /\ io' = [io EXCEPT ![j].opens = Count(@)]
              /\ UNCHANGED << pending, outcome >>
    /\ UNCHANGED << args, fal_response_json, status_url, response_url,
                    retry_count, status_json, res, image_url_result, fs >>

\* Lines 72-86 and 151-166: the submission POST and the locators.
Submit(j) ==
    /\ pc[j] = "post"
    /\ io' = [io EXCEPT ![j] = Request(j, "post")]
    /\ \/ /\ Fail(j, ErrNetwork)
          /\ UNCHANGED << fal_response_json, status_url, response_url >>
       \/ \E r \in SubmitResponses :
            IF RaisesForStatus(Site(j), r)
            THEN /\ Fail(j, ErrHttpStatus)
                 /\ UNCHANGED << fal_response_json, status_url, response_url >>
            ELSE /\ fal_response_json' = [fal_response_json EXCEPT ![j] = r]
                 /\ IF ~HasLocators(r)
                    THEN /\ Fail(j, ErrMissingLocators)
                         /\ UNCHANGED << status_url, response_url >>
                    ELSE /\ status_url' = [status_url EXCEPT ![j] = StatusLocator(j)]
                         /\ response_url' =
                              [response_url EXCEPT ![j] = ResponseLocator(j)]
                         /\ pc' = [pc EXCEPT ![j] = "poll"]
                         /\ UNCHANGED pending
    /\ UNCHANGED << args, session, retry_count, status_json, res,
                    image_url_result, outcome, fs >>

\* Lines 89-98/101/113 and 167-174/178/193: the top of the loop, the status
\* GET and the dispatch on the status.
Poll(j) ==
    /\ pc[j] = "poll"
    /\ IF TimedOut(Site(j), retry_count[j])
       THEN /\ Fail(j, ErrTimeout)
            /\ UNCHANGED << io, status_json >>
       ELSE \/ /\ io' = [io EXCEPT ![j] = Request(j, "status")]
               /\ Fail(j, ErrNetwork)
               /\ UNCHANGED status_json
            \/ \E s \in StatusValues :
                    /\ io' = [io EXCEPT
                                ![j] = [Request(j, "status") EXCEPT
                                          !.pending = IF IsPending(s)
                                                      THEN Count(@) ELSE @]]
                    /\ status_json' = [status_json EXCEPT ![j] = s]
                    /\ IF IsPending(s)
                       THEN pc' = [pc EXCEPT ![j] = "sleep"] /\ UNCHANGED pending
                       ELSE IF s = "COMPLETED"
                       THEN pc' = [pc EXCEPT ![j] = "fetch_result"] /\ UNCHANGED pending
                       ELSE Fail(j, StatusError(Site(j), s))
    /\ UNCHANGED << args, session, fal_response_json, status_url, response_url,
                    retry_count, res, image_url_result, outcome, fs >>

\* The count kept on the tool instance (self.retry_count) instead of in a
\* local: every sleep of any job counts for every image-to-image job.
SleepShared(j) ==
    /\ pc[j] = "sleep"
    /\ io' = [io EXCEPT
                 ![j].slept = IF io[j].sleeps < HistoryCap
                              THEN @ + polling_interval ELSE @,
                 ![j].sleeps = Count(@)]
    /\ retry_count' = [k \in Jobs |->
                         IF Site(k) = "image" /\ retry_count[k] < max_retries
                         THEN retry_count[k] + 1 ELSE retry_count[k]]
    /\ pc' = [pc EXCEPT ![j] = "poll"]
    /\ UNCHANGED << args, session, fal_response_json, status_url, response_url,
                    status_json, res, image_url_result, pending, outcome, fs >>

\* Lines 99-100 and 175-177: the sleep, and the count of image_to_image_async.
Sleep(j) ==
    /\ pc[j] = "sleep"
    /\ io' = [io EXCEPT
                 ![j].slept = IF io[j].sleeps < HistoryCap
                              THEN @ + polling_interval ELSE @,
                 ![j].sleeps = Count(@)]
    /\ retry_count' = [retry_count EXCEPT
                         ![j] = IF Site(j) = "image" THEN @ + 1 ELSE @]
    /\ pc' = [pc EXCEPT ![j] = "poll"]
    /\ UNCHANGED << args, session, fal_response_json, status_url, response_url,
                    status_json, res, image_url_result, pending, outcome, fs >>

\* Lines 103-106 and 179-187: the result GET and the asset URL.
FetchResult(j) ==
    /\ pc[j] = "fetch_result"
    /\ io' = [io EXCEPT ![j] = Request(j, "result")]
    /\ \/ /\ Fail(j, ErrNetwork)
          /\ UNCHANGED << res, image_url_result >>
       \/ \E r \in Results(Site(j)) :
            /\ res' = [res EXCEPT ![j] = r]
            /\ IF ResultError(Site(j), r) /= None
               THEN /\ Fail(j, ResultError(Site(j), r))
                    /\ UNCHANGED image_url_result
               ELSE /\ image_url_result' =
                         [image_url_result EXCEPT ![j] = AssetUrl(Site(j), r)]
                    /\ pc' = [pc EXCEPT ![j] = "download"]
                    /\ UNCHANGED pending
    /\ UNCHANGED << args, session, fal_response_json, status_url, response_url,
                    retry_count, status_json, outcome, fs >>

\* Lines 109-110 and 189-190: the asset GET, then open(save_at, "wb"), which
\* creates or truncates the file.  Opening the empty path always fails.
Download(j) ==
    /\ pc[j] = "download"
    /\ \/ /\ io' = [io EXCEPT ![j] = Request(j, "asset")]
          /\ Fail(j, ErrNetwork)
          /\ UNCHANGED fs
       \/ /\ io' = [io EXCEPT ![j] = Request(j, "asset")]
          /\ Fail(j, ErrIO)
          /\ UNCHANGED fs
       \/ /\ args[j].save_at /= ""
          /\ io' = [io EXCEPT ![j] = [Request(j, "asset") EXCEPT !.fopen = Count(@)]]
          /\ fs' = [fs EXCEPT ![args[j].save_at] = File(<< >>)]
          /\ pc' = [pc EXCEPT ![j] = "store"]
          /\ UNCHANGED pending
    /\ UNCHANGED << args, session, fal_response_json, status_url, response_url,
                    retry_count, status_json, res, image_url_result, outcome >>

\* Lines 111-112 and 191-192: read the body, write it, close the file, break.
\* A failed read writes nothing; a failed write leaves a proper prefix.
Store(j) ==
    /\ pc[j] = "store"
    /\ LET bytes == Body(image_url_result[j]) IN
       \/ /\ Fail(j, ErrNetwork)
          /\ UNCHANGED << fs, io >>
       \/ \E n \in 0 .. (Len(bytes) - 1) :
            /\ Fail(j, ErrIO)
            /\ fs' = [fs EXCEPT ![args[j].save_at] = File(SubSeq(bytes, 1, n))]
            /\ io' = [io EXCEPT ![j].fwrite = Count(@)]
       \/ /\ fs' = [fs EXCEPT ![args[j].save_at] = File(bytes)]
          /\ io' = [io EXCEPT ![j].fwrite = Count(@)]
          /\ pc' = [pc EXCEPT ![j] = AfterStore]
          /\ UNCHANGED pending
    /\ UNCHANGED << args, session, fal_response_json, status_url, response_url,
                    retry_count, status_json, res, image_url_result, outcome >>

\* The exit of the with block (lines 70 / 150), then the except clause or
\* the return statement.
ExitSession(j) ==
    /\ pc[j] = "exit_session"
    /\ session' = [session EXCEPT ![j] = SessionAfterExit(pending[j])]
    /\ IF pending[j] = None
       THEN /\ outcome' = [outcome EXCEPT
                             ![j] = Returned(Success(args[j], image_url_result[j]))]
            /\ pc' = [pc EXCEPT ![j] = "returned"]
       ELSE /\ outcome' = [outcome EXCEPT
                             ![j] = Raised(Wrap(Site(j), pending[j]))]
            /\ pc' = [pc EXCEPT ![j] = "raised"]
    /\ UNCHANGED << args, fal_response_json, status_url, response_url,
                    retry_count, status_json, res, image_url_result, pending,
                    fs, io >>

----------------------------------------------------------------------------
(* Specifications. *)

\* The jobs in `active` are called, each with any arguments of its call
\* site; the others are never called.
InitFor(active) ==
    /\ args \in { a \in [Jobs -> UNION { VideoArgs(j) \cup ImageArgs(j) : j \in Jobs }
                                    \cup {NoCall}] :
                    \A j \in Jobs :
                        IF j \in active
                        THEN a[j] \in VideoArgs(j) \cup ImageArgs(j)
                        ELSE a[j] = NoCall }
    /\ pc = [j \in Jobs |-> IF j \in active THEN "call" ELSE "idle"]
    /\ session = [j \in Jobs |-> "none"]
    /\ fal_response_json = [j \in Jobs |-> NoResponse]
    /\ status_url = [j \in Jobs |-> Unset]
    /\ response_url = [j \in Jobs |-> Unset]
    /\ retry_count = [j \in Jobs |-> 0]
    /\ status_json = [j \in Jobs |-> Unset]
    /\ res = [j \in Jobs |-> NoResult]
    /\ image_url_result = [j \in Jobs |-> Unset]
    /\ pending = [j \in Jobs |-> None]
    /\ outcome = [j \in Jobs |-> NoOutcome]
    /\ fs \in { f \in [Paths -> {NoFile, File(OldBytes)}] :
                  \A j \in Jobs \ active : f[SavePath[j]] = NoFile }
    /\ io = [j \in Jobs |-> NoIO]

Init == InitFor({"j1"})

Step(j) ==
    \/ Call(j)
    \/ Submit(j)
    \/ Poll(j)
    \/ Sleep(j)
    \/ FetchResult(j)
    \/ Download(j)
    \/ Store(j)
    \/ ExitSession(j)

Next == \E j \in Jobs : Step(j)

Spec == Init /\ [][Next]_vars

\* Two jobs on one tool instance, interleaved at their awaits: a
\* text-to-video job and an image-to-image job, each called with arguments
\* that pass the checks, writing to different paths.
ConcInit ==
    /\ InitFor(Jobs)
    /\ Site("j1") = "video"
    /\ Site("j2") = "image"
    /\ \A j \in Jobs : /\ ValidationError(args[j]) = None
                       /\ args[j].save_at = SavePath[j]
                       /\ args[j].prompt /= ""
                       /\ fs[SavePath[j]] = File(OldBytes)

\* In ConcSpec the service answers the text-to-video job, whose loop has no
\* cap, IN_QUEUE / IN_PROGRESS at most ConcPending times; the image-to-image
\* job is left to run into its own cap.
ConcPoll(j) ==
    /\ Poll(j)
    /\ (Site(j) = "video" /\ pc'[j] = "sleep") => io[j].sleeps < ConcPending

ConcNext ==
    \E j \in Jobs :
        \/ Call(j)
        \/ Submit(j)
        \/ ConcPoll(j)
        \/ Sleep(j)
        \/ FetchResult(j)
        \/ Download(j)
        \/ Store(j)
        \/ ExitSession(j)

ConcSpec == ConcInit /\ [][ConcNext]_vars

\* The event loop resumes every coroutine whose awaited answer has arrived.
FairSpec == Spec /\ \A j \in Jobs : WF_vars(Step(j))

----------------------------------------------------------------------------
(* Vocabulary of the properties. *)

Terminal(j) == pc[j] \in {"returned", "raised"}

\* The exception job j has raised inside its try block, whether it is still
\* on its way out of the with block or already wrapped.
Failing(j) == pc[j] \in {"exit_session", "raised"} /\ pending[j] /= None

----------------------------------------------------------------------------
(* C1: an image-to-image job never issues a 31st status poll; once 30      *)
(* polls have all been answered IN_QUEUE / IN_PROGRESS (30 sleeps taken),  *)
(* exactly max_retries status polls were issued, none follows, the job     *)
(* fails with the TimeoutError, and it has fetched no result and           *)
(* downloaded no asset.                                                    *)
C1_TimeoutAfterCap ==
    \A j \in Jobs :
        Site(j) = "image" =>
            /\ io[j].status <= max_retries
            /\ io[j].sleeps = max_retries =>
                 /\ io[j].status = max_retries
                 /\ io[j].result = 0
                 /\ io[j].asset = 0
                 /\ pc[j] \in {"poll", "exit_session", "raised"}
                 /\ pc[j] /= "poll" => pending[j] = ErrTimeout
                 /\ pc[j] = "raised" => outcome[j].kind = "raise"
                                        /\ outcome[j].value.context = ErrTimeout

\* An image-to-image job has failed with the timeout after 30 polls.
C1_Witness ==
    \E j \in Jobs :
        /\ Site(j) = "image"
        /\ pc[j] = "raised"
        /\ outcome[j].value.context.class = "TimeoutError"
        /\ io[j].status = 30
        /\ io[j].sleeps = 30

----------------------------------------------------------------------------
(* C2: every job that is called, at either call site, eventually reaches   *)
(* DONE (returned) or FAILED (raised), whatever statuses the service       *)
(* answers.                                                                *)
C2_EveryJobTerminates ==
    \A j \in Jobs : (pc[j] = "call") ~> Terminal(j)

----------------------------------------------------------------------------
(* C3: a job issues at most one GET of the result locator, never before    *)
(* COMPLETED was observed, and exactly one once COMPLETED was observed and *)
(* acted on; after the observation it issues no status poll and takes no   *)
(* sleep.                                                                  *)
C3_OneResultFetch ==
    /\ [](\A j \in Jobs :
            /\ io[j].result <= 1
            /\ io[j].result = 1 => status_json[j] = "COMPLETED"
            /\ (status_json[j] = "COMPLETED" /\ pc[j] /= "fetch_result")
                   => io[j].result = 1)
    /\ [][\A j \in Jobs :
            status_json[j] = "COMPLETED" =>
                /\ io'[j].status = io[j].status
                /\ io'[j].sleeps = io[j].sleeps
                /\ status_json'[j] = "COMPLETED"
                /\ pc'[j] \notin {"poll", "sleep"}]_vars

\* A job has returned after pending polls, a COMPLETED and one result GET.
C3_Witness ==
    \E j \in Jobs :
        /\ pc[j] = "returned"
        /\ status_json[j] = "COMPLETED"
        /\ io[j].status = 3
        /\ io[j].sleeps = 2
        /\ io[j].result = 1

----------------------------------------------------------------------------
----------------------------------------------------------------------------
(* C5: a job whose status poll returned a status that is none of IN_QUEUE, *)
(* IN_PROGRESS, COMPLETED (a response without the status field included)   *)
(* fails at that poll with a protocol error, a ValueError: it does not     *)
(* sleep or poll again, fetches no result and opens no file.               *)
C5_UnknownStatusIsProtocolError ==
    \A j \in Jobs :
        status_json[j] \notin {Unset, "IN_QUEUE", "IN_PROGRESS", "COMPLETED"} =>
            /\ Failing(j)
            /\ pending[j].class = "ValueError"
            /\ io[j].result = 0
            /\ io[j].asset = 0
            /\ io[j].fopen = 0

----------------------------------------------------------------------------
(* C6: a job that observed COMPLETED and fetched a result without assets   *)
(* (no video URL; images absent or empty) fails with the empty-result      *)
(* error, issues no asset GET and does not open or write the file.         *)
C6_EmptyResultError ==
    \A j \in Jobs :
        (/\ status_json[j] = "COMPLETED"
         /\ res[j].received
         /\ IF Site(j) = "video"
            THEN ~res[j].has_video
            ELSE ~res[j].has_images \/ Len(res[j].images) = 0) =>
            /\ Failing(j)
            /\ pending[j] = ErrNoImages
            /\ io[j].asset = 0
            /\ io[j].fopen = 0
            /\ io[j].fwrite = 0

----------------------------------------------------------------------------
(* C7: a job returns a value exactly when it ends in DONE, and then the    *)
(* submission carried both locators, COMPLETED was observed, the file at   *)
(* save_at holds exactly the bytes the asset URL serves (the URL of the    *)
(* first image for image-to-image) and the value is {status: success,      *)
(* video_path: save_at}, or {status: success, image_url: that URL,         *)
(* image_path: save_at}; a job that ends without an exception is DONE.     *)
C7_SuccessRecord ==
    \A j \in Jobs :
        /\ (outcome[j].kind = "return") <=> (pc[j] = "returned")
        /\ (Terminal(j) /\ pending[j] = None) => pc[j] = "returned"
        /\ pc[j] = "returned" =>
             LET url == IF Site(j) = "video" THEN res[j].url
                        ELSE Head(res[j].images).url
             IN  /\ fal_response_json[j].has_status_url
                 /\ fal_response_json[j].has_response_url
                 /\ status_json[j] = "COMPLETED"
                 /\ pending[j] = None
                 /\ fs[args[j].save_at] = [exists |-> TRUE, data |-> Body(url)]
                 /\ outcome[j].value =
                      IF Site(j) = "video"
                      THEN [status |-> "success", video_path |-> args[j].save_at]
                      ELSE [status |-> "success", image_url |-> url,
                            image_path |-> args[j].save_at]

\* An image-to-image job has returned, after a pending poll, on a result
\* with two different images, over a file that existed before.
C7_Witness ==
    \E j \in Jobs :
        /\ Site(j) = "image"
        /\ pc[j] = "returned"
        /\ io[j].sleeps >= 1
        /\ Len(res[j].images) = 2
        /\ res[j].images[1].url /= res[j].images[2].url
        /\ fs[args[j].save_at].data = Body(res[j].images[1].url)

----------------------------------------------------------------------------
(* C8: an image-to-image job called with an empty image_url, save_at or    *)
(* prompt never opens a session and never issues a request; it fails with  *)
(* the ValueError of the argument checks.                                  *)
C8_ValidationBeforeNetwork ==
    \A j \in Jobs :
        (/\ Site(j) = "image"
         /\ (args[j].image_url = "" \/ args[j].save_at = "" \/ args[j].prompt = "")) =>
            /\ session[j] = "none"
            /\ io[j] = NoIO
            /\ pc[j] \in {"call", "raised"}
            /\ pc[j] = "raised" => /\ outcome[j].kind = "raise"
                                   /\ outcome[j].value.context.class = "ValueError"
                                   /\ outcome[j].value.context \in
                                        {ErrRequiredArgs, ErrRequiredPrompt}

\* An image-to-image job with an empty prompt has failed.
C8_Witness ==
    \E j \in Jobs :
        /\ Site(j) = "image"
        /\ args[j].image_url /= ""
        /\ args[j].save_at /= ""
        /\ args[j].prompt = ""
        /\ pc[j] = "raised"

----------------------------------------------------------------------------
(* C9: a failed job hands its caller one exception of class Exception,     *)
(* whose message is the operation label followed by the text of the        *)
(* exception raised inside, and which carries that exception; a job in     *)
(* which an exception was raised never returns a value.                    *)
C9_OneWrappedError ==
    \A j \in Jobs :
        /\ (outcome[j].kind = "raise") <=> (pc[j] = "raised")
        /\ (Terminal(j) /\ pending[j] /= None) => pc[j] = "raised"
        /\ pc[j] = "raised" =>
             /\ pending[j] /= None
             /\ outcome[j].value.class = "Exception"
             /\ outcome[j].value.msg =
                  << IF Site(j) = "video" THEN "Error generating video: "
                                          ELSE "Error generating image: ",
                     pending[j].msg >>
             /\ outcome[j].value.context = pending[j]

\* A text-to-video job has failed on a file error.
C9_Witness ==
    \E j \in Jobs :
        /\ Site(j) = "video"
        /\ pc[j] = "raised"
        /\ pending[j].class = "OSError"
        /\ outcome[j].value.class = "Exception"

----------------------------------------------------------------------------
(* C10: a job opens at most one session, every request it issues is issued *)
(* while that session is open, and in DONE and in FAILED the session is    *)
(* closed if it was opened.                                                *)
C10_SessionScoped ==
    \A j \in Jobs :
        /\ io[j].opens <= 1
        /\ io[j].stray = 0
        /\ session[j] = "none" =>
             io[j].opens = 0 /\ io[j].post = 0 /\ io[j].status = 0
             /\ io[j].result = 0 /\ io[j].asset = 0
        /\ Terminal(j) => session[j] /= "open"
        /\ (Terminal(j) /\ io[j].opens = 1) => session[j] = "closed"
        /\ session[j] = "closed" => Terminal(j)

\* A job has failed on a network error after polling, its session closed.
C10_Witness ==
    \E j \in Jobs :
        /\ pc[j] = "raised"
        /\ pending[j].class = "ClientError"
        /\ io[j].status >= 1
        /\ session[j] = "closed"

----------------------------------------------------------------------------
(* C11: two jobs interleaved on one tool instance are independent.  A step *)
(* of one job changes nothing of the other: not its arguments, position,   *)
(* session, locators, attempt counter, responses, exception, outcome or    *)
(* history, and not the file at the other's path.  And what a job holds is *)
(* what its own answers give it, as when it runs alone: its own locators,  *)
(* an attempt counter equal to the number of its own sleeps, at most one   *)
(* session, and an outcome made of its own result and its own exception.   *)

\* Everything job k owns.
JobState(k) ==
    << args[k], pc[k], session[k], fal_response_json[k], status_url[k],
       response_url[k], retry_count[k], status_json[k], res[k],
       image_url_result[k], pending[k], outcome[k], io[k] >>

C11_JobsIndependent ==
    /\ [][\A j \in Jobs :
            pc'[j] /= pc[j] =>
                \A k \in Jobs \ {j} :
                    /\ JobState(k)' = JobState(k)
                    /\ fs'[SavePath[k]] = fs[SavePath[k]]]_vars
    /\ [](\A j \in Jobs :
            /\ status_url[j] \in {Unset, StatusLocator(j)}
            /\ response_url[j] \in {Unset, ResponseLocator(j)}
            /\ retry_count[j] = IF Site(j) = "image" THEN io[j].sleeps ELSE 0
            /\ io[j].opens <= 1
            /\ io[j].stray = 0
            /\ Terminal(j) => session[j] = "closed"
            /\ pc[j] = "raised" => outcome[j].value.context = pending[j]
            /\ pc[j] = "returned" =>
                 LET url == IF Site(j) = "video" THEN res[j].url
                            ELSE Head(res[j].images).url
                 IN  /\ fs[args[j].save_at].data = Body(url)
                     /\ outcome[j].value =
                          IF Site(j) = "video"
                          THEN [status |-> "success", video_path |-> args[j].save_at]
                          ELSE [status |-> "success", image_url |-> url,
                                image_path |-> args[j].save_at])

\* Both jobs have polled, slept and returned, each with its own file, the
\* image-to-image job having been the first to start polling.
C11_Witness ==
    /\ \A j \in Jobs : pc[j] = "returned" /\ io[j].sleeps >= 1
    /\ io["j1"].sleeps /= io["j2"].sleeps
    /\ fs[SavePath["j1"]].data /= fs[SavePath["j2"]].data

----------------------------------------------------------------------------
(* C12: a job issues at most one submission POST, and exactly one once it  *)
(* has passed the argument checks and submitted; at most one result GET    *)
(* and one asset GET; a status GET is repeated only when the status before *)
(* it was IN_QUEUE / IN_PROGRESS.  Once a step has failed the job is on    *)
(* its way to FAILED: it issues no request, takes no sleep, writes no file *)
(* and the failure stays.                                                  *)
C12_NoRetry ==
    /\ [](\A j \in Jobs :
            /\ io[j].post <= 1
            /\ io[j].result <= 1
            /\ io[j].asset <= 1
            /\ io[j].fopen <= 1
            /\ pc[j] \notin {"idle", "call", "post", "raised"} => io[j].post = 1
            /\ (pc[j] = "raised" /\ io[j].opens = 1) => io[j].post = 1
            /\ pending[j] /= None => Failing(j))
    /\ [][\A j \in Jobs :
            /\ pending[j] /= None =>
                 /\ io'[j] = io[j]
                 /\ fs' = fs
                 /\ pending'[j] = pending[j]
                 /\ pc'[j] \in {"exit_session", "raised"}
            /\ (io'[j].status > io[j].status /\ io[j].status >= 1) =>
                 IsPending(status_json[j])]_vars

\* A job has failed on a network error at its third status poll.
C12_Witness ==
    \E j \in Jobs :
        /\ pc[j] = "raised"
        /\ pending[j] = ErrNetwork
        /\ io[j].post = 1
        /\ io[j].status = 3
        /\ io[j].pending = 2
        /\ io[j].result = 0

----------------------------------------------------------------------------
(* C13: at both call sites the attempt counter equals the number of sleeps *)
(* taken, which is the number of IN_QUEUE / IN_PROGRESS answers observed   *)
(* (one more while the sleep for the last of them is being taken); each    *)
(* sleep lasts polling_interval, and there is one sleep between any two    *)
(* consecutive status polls.                                               *)
C13_CounterCountsSleeps ==
    \A j \in Jobs :
        (pc[j] /= "idle" /\ io[j].pending < HistoryCap) =>
            /\ retry_count[j] = io[j].sleeps
            /\ io[j].pending = io[j].sleeps + (IF pc[j] = "sleep" THEN 1 ELSE 0)
            /\ io[j].slept = io[j].sleeps * 10
            /\ io[j].sleeps <= io[j].status
            /\ io[j].status <= io[j].sleeps + 1

----------------------------------------------------------------------------
(* C14: the steps of a job follow SUBMITTED -> POLLING* ->                 *)
(* COMPLETED_FETCHING -> DONE, with FAILED reachable from every state: the *)
(* POST precedes every status GET, a status GET answered COMPLETED         *)
(* precedes the result GET, the result GET precedes the asset GET, the     *)
(* file is opened only after COMPLETED was observed and the result gave an *)
(* asset URL, and nothing follows DONE or FAILED.                          *)

\* The moves of the state machine, in the positions of the coroutine.
C14_Moves ==
    { << "call", "post" >>, << "call", "raised" >>,
      << "post", "poll" >>, << "post", "exit_session" >>,
      << "poll", "sleep" >>, << "poll", "fetch_result" >>,
      << "poll", "exit_session" >>,
      << "sleep", "poll" >>,
      << "fetch_result", "download" >>, << "fetch_result", "exit_session" >>,
      << "download", "store" >>, << "download", "exit_session" >>,
      << "store", "exit_session" >>,
      << "exit_session", "returned" >>, << "exit_session", "raised" >> }

C14_StateMachineOrder ==
    /\ [](\A j \in Jobs :
            /\ io[j].status >= 1 => io[j].post = 1 /\ status_url[j] /= Unset
            /\ io[j].result >= 1 =>
                 io[j].status >= 1 /\ status_json[j] = "COMPLETED"
            /\ io[j].asset >= 1 =>
                 io[j].result = 1 /\ res[j].received /\ image_url_result[j] \in AssetUrls
            /\ io[j].fopen >= 1 =>
                 /\ io[j].asset = 1
                 /\ status_json[j] = "COMPLETED"
                 /\ image_url_result[j] \in AssetUrls
            /\ io[j].fwrite >= 1 => io[j].fopen = 1
            /\ pc[j] = "returned" =>
                 io[j].post = 1 /\ io[j].result = 1 /\ io[j].asset = 1
                 /\ io[j].fopen = 1 /\ io[j].fwrite = 1)
    /\ [][\A j \in Jobs :
            /\ pc'[j] /= pc[j] => << pc[j], pc'[j] >> \in C14_Moves
            /\ Terminal(j) => JobState(j)' = JobState(j) /\ fs' = fs]_vars

\* A job has gone through every state: two pending polls, COMPLETED, the
\* result, the asset, the file.
C14_Witness ==
    \E j \in Jobs :
        /\ pc[j] = "returned"
        /\ io[j].post = 1
        /\ io[j].status = 3
        /\ io[j].result = 1
        /\ io[j].asset = 1
        /\ io[j].fwrite = 1

----------------------------------------------------------------------------
(* C15: in an image-to-image job the attempt counter is between 0 and 30,  *)
(* at most 30 status polls are issued and at most 300 s are slept; the     *)
(* timeout is raised only after 30 polls were answered IN_QUEUE /          *)
(* IN_PROGRESS, so a COMPLETED on any of the polls 1 to 30 is observed and *)
(* acted on, and no status is observed on a 31st poll.                     *)
C15_AttemptBounds ==
    \A j \in Jobs :
        Site(j) = "image" =>
            /\ retry_count[j] >= 0
            /\ retry_count[j] <= 30
            /\ io[j].status <= 30
            /\ io[j].slept <= 300
            /\ pending[j] = ErrTimeout =>
                 /\ io[j].status = 30
                 /\ io[j].pending = 30
                 /\ status_json[j] /= "COMPLETED"
            /\ status_json[j] = "COMPLETED" =>
                 /\ io[j].status >= 1
                 /\ io[j].status <= 30
                 /\ io[j].status = retry_count[j] + 1
                 /\ pending[j] /= ErrTimeout
                 /\ pc[j] \in {"fetch_result", "download", "store",
                               "exit_session", "returned", "raised"}

\* An image-to-image job has succeeded on a COMPLETED at its 30th poll.
C15_Witness ==
    \E j \in Jobs :
        /\ Site(j) = "image"
        /\ pc[j] = "returned"
        /\ io[j].status = 30
        /\ retry_count[j] = 29
        /\ io[j].slept = 290

----------------------------------------------------------------------------
(* C16: a job that ends in FAILED leaves the file at save_at as it was     *)
(* before the call, absent or with its old bytes (no step writes the old   *)
(* bytes or removes a file): never empty, never a part of the asset.       *)
C16_FailedLeavesFileUnchanged ==
    \A j \in Jobs :
        (pc[j] = "raised" /\ args[j].save_at /= "") =>
            fs[args[j].save_at] \in {NoFile, File(OldBytes)}

====
